---- MODULE Spec2Model ----
(***************************************************************************)
(* State-machine model of svtplay-dl-category.py: the orchestrator main    *)
(* loop, the download invoker with its single retry, the seen-set files,   *)
(* the series/error JSON stores and the SIGINT/SIGTERM handler.            *)
(*                                                                         *)
(* Abstractions: URLs are short strings, or full URLs and site paths where *)
(* episode discovery is looked at by itself; timestamps are day numbers,   *)
(* the script being invoked once a day (0 = None); the free-text fields    *)
(* name, last_error and last_failure of the JSON entries, folder paths and *)
(* poster files are not tracked.  idx and ep_i are 1-based (enumerate()    *)
(* is 0-based).                                                            *)
(* A signal is delivered to the orchestrator only: the downloader is       *)
(* started in a session of its own (start_new_session=True).  The handler  *)
(* runs between two steps of the main thread, so the start of the child    *)
(* and the assignment to current_child are two steps, and a save of a JSON *)
(* store is three: open the temporary file, close it, replace.  A JSON     *)
(* file is a document state (absent, partial, complete: an empty file is   *)
(* a partial document) and, for the two stores, the data of the complete   *)
(* document.                                                               *)
(***************************************************************************)
EXTENDS Integers, Sequences, FiniteSets

\* ------------------------------------------------------------------ bounds
\* size of a scenario: length of the category listing plus the number of
\* invocations of the script (runs, --mark-complete, --unmark-complete);
\* every listing leaves room for two invocations at least
MaxSize == 4
MaxDl == 1         \* the positive --max-dl value explored, besides 0
MaxChecks == 3     \* largest check_count of the stores handed to the report
MaxPage == 4       \* size of a detail page: its modules plus their items
MaxRuns == 5       \* number of runs when the script is run again and again

\* ------------------------------------------------------- the site's content
None == "None"

MovieItem == [typename |-> "Single", svtplay |-> "m1", ok |-> TRUE]
SeriesItem == [typename |-> "TvSeries", svtplay |-> "s1", ok |-> TRUE]
\* an entry on which lines 635-639 raise KeyError/TypeError
BadItem == [typename |-> "?", svtplay |-> "", ok |-> FALSE]

CategoryItems == {MovieItem, SeriesItem, BadItem}

Listings == UNION {[1..n -> CategoryItems] : n \in 0..(MaxSize - 2)}

SiteBase == "https://www.svtplay.se"

\* detailsPageByPath of an item's detail page: parent type, the item's own
\* path and the modules; a module may lack its selection
DetailPage(url) ==
    IF url = "s1"
    THEN [parent_type |-> "TvSeries",
          own |-> "s1",
          modules |-> << [id |-> "details-x",
                          selection |-> [items |-> <<"x1">>]],
                         [id |-> "season-1",
                          selection |-> [items |-> <<"e1", "e2", "e1">>]],
                         [id |-> "related",
                          selection |-> [items |-> <<"m1">>]],
                         [id |-> "season-clips",
                          selection |-> [items |-> <<"c1">>]] >>]
    ELSE [parent_type |-> "Single", own |-> url, modules |-> <<>>]

SiteUrls == {"m1", "s1"}

MarkUrls == {"m1", "s1"}          \* arguments tried for --mark/--unmark-complete

\* ------------------------------------------------------- the files on disk
ErrorsPath == "errors.json"
StatePath == "series_state.json"
StorePaths == {ErrorsPath, StatePath}

\* variant of tmp_path that writes into the store itself
tmp_path_same(path) == path
\* line 371: the temporary sibling
tmp_path(path) == path \o ".tmp"

DocPaths == StorePaths \cup {tmp_path(p) : p \in StorePaths}

\* lines 358-365: a missing or undecodable file loads as {}
load_json_state(docstate, data) ==
    IF docstate = "complete" THEN data ELSE <<>>

\* ------------------------------------------------------------ pure helpers
StartsWith(s, prefix) ==
    Len(s) >= Len(prefix) /\ SubSeq(s, 1, Len(prefix)) = prefix
Contains(s, part) ==
    \E i \in 1..(Len(s) - Len(part) + 1) : SubSeq(s, i, i + Len(part) - 1) = part

\* urljoin(base, path) of lines 301 and 317: a path with a leading slash is
\* put behind the site's address; an absolute URL (the short names m1, e1,
\* ... are absolute URLs) is returned as it is
urljoin(base, path) == IF StartsWith(path, "/") THEN base \o path ELSE path

RECURSIVE AppendNew_path(_, _)
\* variant of AppendNew that looks for the path, not for the resolved URL
AppendNew_path(videos, paths) ==
    IF paths = <<>> THEN videos
    ELSE LET path == Head(paths)
             v == IF path = None \/ \E i \in 1..Len(videos) : videos[i] = path
                  THEN videos
                  ELSE Append(videos, urljoin(SiteBase, path))
         IN AppendNew_path(v, Tail(paths))
RECURSIVE AppendNew(_, _)
\* lines 314-319: resolve each item's path, if it has one, and append the
\* URL unless videos holds it
AppendNew(videos, paths) ==
    IF paths = <<>> THEN videos
    ELSE LET path == Head(paths)
             full == urljoin(SiteBase, path)
             v == IF path = None \/ \E i \in 1..Len(videos) : videos[i] = full
                  THEN videos ELSE Append(videos, full)
         IN AppendNew(v, Tail(paths))

\* lines 306-310
skipped_module(mod_id) ==
    \/ mod_id \in {"upcoming", "related"}
    \/ StartsWith(mod_id, "details")
    \/ Contains(mod_id, "clips")

RECURSIVE ScanModules(_, _)
\* lines 305-319: the loop over the modules
ScanModules(videos, modules) ==
    IF modules = <<>> THEN videos
    ELSE LET m == Head(modules)
         IN IF skipped_module(m.id) \/ "selection" \notin DOMAIN m
            THEN ScanModules(videos, Tail(modules))
            ELSE ScanModules(AppendNew(videos, m.selection.items),
                             Tail(modules))

\* lines 296-320
discover_episode_urls(details) ==
    IF details.parent_type = "Single"
    THEN IF details.own = None THEN <<>>
         ELSE <<urljoin(SiteBase, details.own)>>
    ELSE ScanModules(<<>>, details.modules)

\* variant of load_seen that reads nothing
load_seen_none(file) == {}
\* lines 327-331
load_seen(file) == {file[i] : i \in 1..Len(file)}

\* variant of append_seen that loses the line
append_seen_skip(file, url) == file
\* lines 334-338
append_seen(file, url) == Append(file, url)

\* variant of remove_from_seen that leaves the file alone
remove_from_seen_none(file, url) == file
\* lines 341-351
remove_from_seen(file, url) == SelectSeq(file, LAMBDA l : l # url)

\* variant of mark_complete that appends without looking
mark_complete_blind(file, url) == append_seen(file, url)
\* lines 565-570: --mark-complete appends unless the URL is in the file
mark_complete(file, url) ==
    IF url \in load_seen(file) THEN file ELSE append_seen(file, url)

\* variant of is_permanent_error that finds no URL permanent
is_permanent_error_never(errs, url) == FALSE
\* lines 381-382
is_permanent_error(errs, url) ==
    IF url \in DOMAIN errs THEN errs[url].permanent ELSE FALSE

\* variant of record_error that starts from a fresh entry every time
record_error_fresh(errs, url) ==
    LET entry == [fail_count |-> 0, permanent |-> FALSE]
        fc == entry.fail_count + 1
        e2 == [fail_count |-> fc,
               permanent |-> IF fc > 2 THEN TRUE ELSE entry.permanent]
    IN [u \in DOMAIN errs \cup {url} |-> IF u = url THEN e2 ELSE errs[u]]
\* variant of record_error whose threshold is one too high (fail_count > 3)
record_error_late(errs, url) ==
    LET entry == IF url \in DOMAIN errs THEN errs[url]
                 ELSE [fail_count |-> 0, permanent |-> FALSE]
        fc == entry.fail_count + 1
        e2 == [fail_count |-> fc,
               permanent |-> IF fc > 3 THEN TRUE ELSE entry.permanent]
    IN [u \in DOMAIN errs \cup {url} |-> IF u = url THEN e2 ELSE errs[u]]
\* lines 385-394 (last_error and last_failure are not tracked)
record_error(errs, url) ==
    LET entry == IF url \in DOMAIN errs THEN errs[url]
                 ELSE [fail_count |-> 0, permanent |-> FALSE]
        fc == entry.fail_count + 1
        e2 == [fail_count |-> fc,
               permanent |-> IF fc > 2 THEN TRUE ELSE entry.permanent]
    IN [u \in DOMAIN errs \cup {url} |-> IF u = url THEN e2 ELSE errs[u]]

\* variant of clear_error that resets the counters and keeps the key
clear_error_reset(errs, url) ==
    [u \in DOMAIN errs |->
        IF u = url THEN [fail_count |-> 0, permanent |-> FALSE] ELSE errs[u]]
\* lines 468-470 / 476-478: del errors[url]
clear_error(errs, url) == [u \in DOMAIN errs \ {url} |-> errs[u]]

\* lines 401-417 (the name field is not tracked)
update_series_state(state, show_url, found, now) ==
    LET entry == IF show_url \in DOMAIN state THEN state[show_url]
                 ELSE [check_count |-> 0, last_new_episode_date |-> 0]
        e2 == IF found
              THEN [check_count |-> 0, last_new_episode_date |-> now]
              ELSE [entry EXCEPT !.check_count = entry.check_count + 1]
    IN [u \in DOMAIN state \cup {show_url} |->
           IF u = show_url THEN e2 ELSE state[u]]

\* variant of dl_limit_reached that stops one download late
dl_limit_reached_gt(a, st) ==
    IF a.max_dl <= 0 THEN FALSE
    ELSE st.movies_downloaded + st.episodes_downloaded > a.max_dl
\* lines 620-624
dl_limit_reached(a, st) ==
    IF a.max_dl <= 0 THEN FALSE
    ELSE st.movies_downloaded + st.episodes_downloaded >= a.max_dl

\* variant of new_episodes that keeps the permanently failed episodes
new_episodes_perm(episode_urls, seen_eps, errs) ==
    SelectSeq(episode_urls, LAMBDA ep : ep \notin seen_eps)
\* lines 704-708: episodes neither seen nor permanently failed
new_episodes(episode_urls, seen_eps, errs) ==
    SelectSeq(episode_urls,
              LAMBDA ep : ep \notin seen_eps /\ ~is_permanent_error(errs, ep))

\* lines 709-712
perm_skipped_count(episode_urls, errs) ==
    Cardinality({i \in 1..Len(episode_urls) :
                     is_permanent_error(errs, episode_urls[i])})

\* variant of found_new_of that is true of an empty list too
found_new_always(eps) == Len(eps) >= 0
\* line 720
found_new_of(eps) == Len(eps) > 0

\* variant of force_quit that quits on the first signal
force_quit_always(stop) == TRUE
\* line 47: the handler force-quits when a stop is already pending
force_quit(stop) == stop

\* variant of attempt_ok that takes any exit code for success
attempt_ok_any(code) == TRUE
\* lines 467 / 475: a zero exit is success
attempt_ok(code) == code = 0

\* variant of may_retry that retries a second time
may_retry_twice(n) == n <= 2
\* lines 473-474: exactly one retry, after the first attempt only
may_retry(n) == n = 1

\* timestamps: None, a string datetime.fromisoformat rejects, else a day
NoDate == 0
BadDate == -1
Never == 9999
StaleDays == 2     \* the --stale-days value of the runs

\* lines 426-433: whole days since the timestamp
days_since(raw, now) ==
    IF raw = NoDate THEN Never
    ELSE IF raw = BadDate THEN Never
    ELSE now - raw

\* variant of find_stale_series that lists a series after one check
find_stale_series_early(state, stale_days, now) ==
    {u \in DOMAIN state :
        /\ ~(state[u].check_count < 1)
        /\ days_since(state[u].last_new_episode_date, now) >= stale_days}
\* lines 420-435: the URLs of the entries it yields
find_stale_series(state, stale_days, now) ==
    {u \in DOMAIN state :
        /\ ~(state[u].check_count < 2)
        /\ days_since(state[u].last_new_episode_date, now) >= stale_days}

\* lines 748-749: the report leaves out what is in the seen set
stale_report(state, stale_days, now, seen_set) ==
    {u \in find_stale_series(state, stale_days, now) : u \notin seen_set}

\* variant of fatal_start that goes on with an empty listing
fatal_start_lenient(outcome, items) == outcome # "ok"
\* lines 588-608: the category page cannot be fetched or parsed, or has no items
fatal_start(outcome, items) == outcome # "ok" \/ Len(items) = 0

\* variant of delay_due that also sleeps after the last element
delay_due_always(slp, i, n, stop) == slp > 0 /\ ~stop
\* lines 735-737 and 744: a delay follows element i of n
delay_due(slp, i, n, stop) == slp > 0 /\ i < n /\ ~stop

ZeroStats == [movies_downloaded |-> 0, episodes_downloaded |-> 0,
              series_checked |-> 0, skipped_seen |-> 0,
              skipped_permanent |-> 0, errors_this_run |-> 0]

NoCall == [log0 |-> 0, fc0 |-> 0, rcs |-> <<>>]


\* ------------------------------------------------------------------- state
VARIABLES
    listing,          \* the category listing the site serves (fixed)
    pages,            \* the detail page the site serves for each URL (fixed)
    seenFile,         \* seen_urls.txt, one URL per line
    seenEpFile,       \* seen_episodes.txt
    stateFile,        \* series_state.json: the data of its complete document
    errorsFile,       \* errors.json: the data of its complete document
    doc,              \* document state of the JSON files and their .tmp siblings
    pc,               \* position of the orchestrator process
    args,             \* parsed command line: dry_run, max_dl, sleep, stale_days
    seen, seen_episodes, series_state, errors,    \* loaded state (580-584)
    stats,            \* counters of the summary
    idx,              \* position in the item loop
    episode_urls, new_eps, ep_i, found_new,        \* series path locals
    dl_url,           \* url argument of download_with_retry
    attempt,          \* 1 = first run_svtplay_dl of the call, 2 = the retry
    rc,               \* exit code returned by run_svtplay_dl
    ok,               \* return value of download_with_retry
    stop_requested,   \* global flag set by the signal handler
    current_child,    \* global Popen handle, None or "proc"
    child,            \* the downloader process: none/running/exit0/exit1/terminated
    exit_code,        \* exit status of the orchestrator process
    dl_log,           \* the ">> svtplay-dl ... url" lines printed in this run
    stale,            \* the series URLs of the stale report the latest invocation printed
    runNo,            \* number of invocations of the script so far; the clock
    fails,            \* history: failed download_with_retry calls per url since its last success
    call,             \* history: log length, fail_count at entry and exit codes of the current call
    eps0,             \* history: stats.episodes_downloaded when the series path began
    clean,            \* history: this run downloaded everything it met
    after_clean,      \* history: the previous run was a clean non-dry run
    updated,          \* history: the series whose state this run has updated
    delayed           \* history: the run has slept since its latest download call began

files == <<seenFile, seenEpFile, stateFile, errorsFile>>
mem == <<seen, seen_episodes, series_state, errors>>
locals == <<episode_urls, new_eps, ep_i, found_new>>
dwr == <<dl_url, attempt, rc, ok>>
proc == <<stop_requested, current_child, child, exit_code>>
hist == <<fails, call, eps0, clean, after_clean, updated, delayed>>
vars == <<listing, pages, files, doc, pc, args, mem, stats, idx, locals, dwr, proc,
          dl_log, stale, runNo, hist>>

DlUrls == {"m1", "e1", "e2"}
Stopped == {"idle", "done", "exit"}
SaveSteps == {"open", "close", "replace"}
\* position inside save_json_state(path, ...)
SavePc(path, step) == step \o ":" \o path
SavePcs(path) == {SavePc(path, s) : s \in SaveSteps}
InDownload == {"dwr_start", "run", "spawned", "wait", "dwr_rc", "dwr_ret"}
                  \cup SavePcs(ErrorsPath)

Item == listing[idx]
item_url == Item.svtplay
is_single == Item.typename = "Single"
FailCount(errs, u) == IF u \in DOMAIN errs THEN errs[u].fail_count ELSE 0
Downloads == stats.movies_downloaded + stats.episodes_downloaded
Bump(st, field) == [st EXCEPT ![field] = @ + 1]

Init ==
    /\ listing \in Listings
    /\ pages = [u \in SiteUrls |-> DetailPage(u)]
    /\ seenFile = <<>> /\ seenEpFile = <<>>
    /\ stateFile = <<>> /\ errorsFile = <<>>
    /\ doc = [p \in DocPaths |-> "absent"]
    /\ pc = "idle"
    /\ args = [dry_run |-> FALSE, max_dl |-> 0, sleep |-> 0,
               stale_days |-> StaleDays]
    /\ seen = {} /\ seen_episodes = {}
    /\ series_state = <<>> /\ errors = <<>>
    /\ stats = ZeroStats
    /\ idx = 1
    /\ episode_urls = <<>>
    /\ new_eps = <<>> /\ ep_i = 1 /\ found_new = FALSE
    /\ dl_url = None /\ attempt = 1 /\ rc = 0 /\ ok = FALSE
    /\ stop_requested = FALSE /\ current_child = None /\ child = "none"
    /\ exit_code = 0
    /\ dl_log = <<>>
    /\ stale = {}
    /\ runNo = 0
    /\ fails = [u \in DlUrls |-> 0]
    /\ call = NoCall
    /\ eps0 = 0
    /\ clean = FALSE /\ after_clean = FALSE
    /\ updated = {} /\ delayed = FALSE

\* the process is gone: its memory (everything but the files, its output and
\* its exit status) no longer exists
ProcessExit(code) ==
    /\ pc' = IF code = 0 THEN "done" ELSE "exit"
    /\ exit_code' = code
    /\ args' = [args EXCEPT !.dry_run = FALSE]
    /\ seen' = {} /\ seen_episodes' = {}
    /\ series_state' = <<>> /\ errors' = <<>>
    /\ stats' = ZeroStats
    /\ idx' = 1
    /\ episode_urls' = <<>>
    /\ new_eps' = <<>> /\ ep_i' = 1 /\ found_new' = FALSE
    /\ dl_url' = None /\ attempt' = 1 /\ rc' = 0 /\ ok' = FALSE
    /\ stop_requested' = FALSE /\ current_child' = None
    /\ dl_log' = <<>>
    /\ call' = NoCall /\ eps0' = 0
    /\ updated' = {} /\ delayed' = FALSE

\* ------------------------------------------------ one-shot operations
\* lines 564-571: --mark-complete URL
MarkComplete(u) ==
    /\ pc \in Stopped
    /\ runNo + Len(listing) < MaxSize
    /\ runNo' = runNo + 1
    /\ seenFile' = mark_complete(seenFile, u)
    /\ stale' = {}
    /\ UNCHANGED <<listing, pages, seenEpFile, stateFile, errorsFile, doc, pc, args,
                   mem, stats, idx, locals, dwr, proc, dl_log, hist>>

\* lines 573-578: --unmark-complete URL
UnmarkComplete(u) ==
    /\ pc \in Stopped
    /\ runNo + Len(listing) < MaxSize
    /\ runNo' = runNo + 1
    /\ seenFile' = remove_from_seen(seenFile, u)
    /\ stale' = {}
    /\ clean' = IF seenFile' # seenFile THEN FALSE ELSE clean
    /\ UNCHANGED <<listing, pages, seenEpFile, stateFile, errorsFile, doc, pc, args,
                   mem, stats, idx, locals, dwr, proc, dl_log,
                   fails, call, eps0, after_clean, updated, delayed>>

\* ------------------------------------------------ the orchestrator
\* lines 561, 580-584, 611-618: parse the command line, load the four files.
\* A behaviour re-issues one command line, with or without --dry-run: the
\* options --max-dl and --sleep are chosen at the first run and kept.
Invoke(dry, maxdl, slp) ==
    /\ pc \in Stopped
    /\ pc # "idle" => (maxdl = args.max_dl /\ slp = args.sleep)
    /\ runNo' = runNo + 1
    /\ args' = [dry_run |-> dry, max_dl |-> maxdl, sleep |-> slp,
                stale_days |-> StaleDays]
    /\ seen' = load_seen(seenFile)
    /\ seen_episodes' = load_seen(seenEpFile)
    /\ series_state' = load_json_state(doc[StatePath], stateFile)
    /\ errors' = load_json_state(doc[ErrorsPath], errorsFile)
    /\ stats' = ZeroStats
    /\ idx' = 1
    /\ episode_urls' = <<>>
    /\ new_eps' = <<>> /\ ep_i' = 1 /\ found_new' = FALSE
    /\ dl_url' = None /\ attempt' = 1 /\ rc' = 0 /\ ok' = FALSE
    /\ stop_requested' = FALSE /\ current_child' = None /\ child' = "none"
    /\ exit_code' = 0
    /\ dl_log' = <<>>
    /\ stale' = {}
    /\ call' = NoCall /\ eps0' = 0
    /\ after_clean' = (pc = "done" /\ clean)
    /\ clean' = ~dry
    /\ updated' = {} /\ delayed' = FALSE
    /\ pc' = "fetch_cat"
    /\ UNCHANGED <<listing, pages, files, doc, fails>>

\* a run, while the scenario has room for one
StartRun(dry, maxdl, slp) ==
    /\ runNo + Len(listing) < MaxSize
    /\ Invoke(dry, maxdl, slp)

\* lines 586-608: fetch and parse the category page; the fatal errors
FetchCategory(outcome) ==
    /\ pc = "fetch_cat"
    /\ IF fatal_start(outcome, listing)
       THEN ProcessExit(1) /\ clean' = FALSE
       ELSE /\ pc' = "loop_head"
            /\ UNCHANGED <<args, mem, stats, idx, locals, dwr,
                           stop_requested, current_child, exit_code, dl_log,
                           call, eps0, clean, updated, delayed>>
    /\ UNCHANGED <<listing, pages, files, doc, child, stale, runNo, fails,
                   after_clean>>

\* lines 626-650: loop test, stop/limit check, item parsing, seen check
LoopHead ==
    /\ pc = "loop_head"
    /\ IF idx > Len(listing)
       THEN pc' = "report" /\ UNCHANGED <<idx, stats, clean>>
       ELSE IF stop_requested \/ dl_limit_reached(args, stats)
       THEN pc' = "report" /\ clean' = FALSE /\ UNCHANGED <<idx, stats>>
       ELSE IF ~Item.ok
       THEN pc' = "loop_head" /\ idx' = idx + 1 /\ UNCHANGED <<stats, clean>>
       ELSE IF item_url \in seen
       THEN /\ pc' = "loop_head" /\ idx' = idx + 1
            /\ stats' = Bump(stats, "skipped_seen")
            /\ UNCHANGED clean
       ELSE pc' = "fetch_detail" /\ UNCHANGED <<idx, stats, clean>>
    /\ UNCHANGED <<listing, pages, files, doc, args, mem, locals, dwr, proc, dl_log,
                   stale, runNo, fails, call, eps0, after_clean, updated,
                   delayed>>

\* lines 653-659: fetch the detail page
FetchDetail(fetched) ==
    /\ pc = "fetch_detail"
    /\ IF fetched
       THEN pc' = "poster" /\ UNCHANGED <<idx, stats, clean>>
       ELSE /\ pc' = "loop_head" /\ idx' = idx + 1
            /\ stats' = Bump(stats, "errors_this_run")
            /\ clean' = FALSE
    /\ UNCHANGED <<listing, pages, files, doc, args, mem, locals, dwr, proc, dl_log,
                   stale, runNo, fails, call, eps0, after_clean, updated,
                   delayed>>

\* lines 661-688 and 699-720: metadata, folder, poster, then the movie's
\* permanent-error check or the series' episode partition
Poster ==
    /\ pc = "poster"
    /\ IF is_single
       THEN IF is_permanent_error(errors, item_url)
            THEN /\ pc' = "loop_head" /\ idx' = idx + 1
                 /\ stats' = Bump(stats, "skipped_permanent")
                 /\ UNCHANGED <<locals, dl_url, eps0>>
            ELSE /\ pc' = "dwr_start" /\ dl_url' = item_url
                 /\ UNCHANGED <<idx, stats, locals, eps0>>
       ELSE LET found == discover_episode_urls(pages[item_url])
                eps == new_episodes(found, seen_episodes, errors)
                perm == perm_skipped_count(found, errors)
            IN /\ stats' = [stats EXCEPT !.series_checked = @ + 1,
                                         !.skipped_permanent = @ + perm]
               /\ episode_urls' = found
               /\ new_eps' = eps
               /\ found_new' = found_new_of(eps)
               /\ ep_i' = 1
               /\ eps0' = stats.episodes_downloaded
               /\ pc' = "ep_head"
               /\ UNCHANGED <<idx, dl_url>>
    /\ UNCHANGED <<listing, pages, files, doc, args, mem, attempt, rc, ok, proc,
                   dl_log, stale, runNo, fails, call, clean, after_clean,
                   updated, delayed>>

\* lines 722-725: episode loop test and stop/limit check
EpHead ==
    /\ pc = "ep_head"
    /\ IF ep_i > Len(new_eps)
       THEN pc' = "series_end" /\ UNCHANGED <<dl_url, clean>>
       ELSE IF stop_requested \/ dl_limit_reached(args, stats)
       THEN pc' = "series_end" /\ clean' = FALSE /\ UNCHANGED dl_url
       ELSE pc' = "dwr_start" /\ dl_url' = new_eps[ep_i] /\ UNCHANGED clean
    /\ UNCHANGED <<listing, pages, files, doc, args, mem, stats, idx, locals,
                   attempt, rc, ok, proc, dl_log, stale, runNo, fails, call,
                   eps0, after_clean, updated, delayed>>

\* lines 459-466: entry of download_with_retry, the permanent short-circuit
DownloadWithRetry ==
    /\ pc = "dwr_start"
    /\ call' = [log0 |-> Len(dl_log), fc0 |-> FailCount(errors, dl_url),
                rcs |-> <<>>]
    /\ delayed' = FALSE
    /\ IF is_permanent_error(errors, dl_url)
       THEN pc' = "dwr_ret" /\ ok' = FALSE /\ UNCHANGED attempt
       ELSE pc' = "run" /\ attempt' = 1 /\ UNCHANGED ok
    /\ UNCHANGED <<listing, pages, files, doc, args, mem, stats, idx, locals,
                   dl_url, rc, proc, dl_log, stale, runNo, fails, eps0,
                   clean, after_clean, updated>>

\* lines 442-449, 453-456: print the command; dry run returns 0, a missing
\* executable returns 127, otherwise Popen has started the child
RunSvtplayDl(found) ==
    /\ pc = "run"
    /\ dl_log' = Append(dl_log, dl_url)
    /\ IF args.dry_run
       THEN /\ rc' = 0 /\ pc' = "dwr_rc"
            /\ call' = [call EXCEPT !.rcs = Append(@, 0)]
            /\ UNCHANGED child
       ELSE IF ~found
       THEN /\ rc' = 127 /\ pc' = "dwr_rc"
            /\ call' = [call EXCEPT !.rcs = Append(@, 127)]
            /\ UNCHANGED child
       ELSE /\ child' = "running" /\ pc' = "spawned"
            /\ UNCHANGED <<rc, call>>
    /\ UNCHANGED <<listing, pages, files, doc, args, mem, stats, idx, locals,
                   dl_url, attempt, ok, stop_requested, current_child,
                   exit_code, stale, runNo, fails, eps0, clean, after_clean,
                   updated, delayed>>

\* line 449: the assignment current_child = <Popen object>
AssignChild ==
    /\ pc = "spawned"
    /\ current_child' = "proc"
    /\ pc' = "wait"
    /\ UNCHANGED <<listing, pages, files, doc, args, mem, stats, idx, locals, dwr,
                   stop_requested, child, exit_code, dl_log, stale, runNo,
                   hist>>

\* the external downloader terminates with an exit code
ChildExit(code) ==
    /\ pc = "wait"
    /\ child = "running"
    /\ child' = IF code = 0 THEN "exit0" ELSE "exit1"
    /\ UNCHANGED <<listing, pages, files, doc, pc, args, mem, stats, idx, locals,
                   dwr, stop_requested, current_child, exit_code, dl_log,
                   stale, runNo, hist>>

\* lines 450-452: wait() returns, current_child = None
WaitReturn ==
    /\ pc = "wait"
    /\ child \in {"exit0", "exit1"}
    /\ rc' = IF child = "exit0" THEN 0 ELSE 1
    /\ call' = [call EXCEPT !.rcs = Append(@, rc')]
    /\ current_child' = None
    /\ child' = "none"
    /\ pc' = "dwr_rc"
    /\ UNCHANGED <<listing, pages, files, doc, args, mem, stats, idx, locals,
                   dl_url, attempt, ok, stop_requested, exit_code, dl_log,
                   stale, runNo, fails, eps0, clean, after_clean, updated,
                   delayed>>

\* lines 467-492: success deletes the entry, the first failure retries, the
\* second failure records one error; a changed store is saved before the
\* call returns
DwrResult ==
    /\ pc = "dwr_rc"
    /\ IF attempt_ok(rc)
       THEN /\ ok' = TRUE
            /\ IF dl_url \in DOMAIN errors
               THEN /\ errors' = clear_error(errors, dl_url)
                    /\ pc' = SavePc(ErrorsPath, "open")
                    /\ UNCHANGED fails
               ELSE /\ pc' = "dwr_ret"
                    /\ fails' = [fails EXCEPT ![dl_url] = 0]
                    /\ UNCHANGED errors
            /\ UNCHANGED attempt
       ELSE IF may_retry(attempt)
       THEN /\ attempt' = attempt + 1 /\ pc' = "run"
            /\ UNCHANGED <<errors, ok, fails>>
       ELSE /\ errors' = record_error(errors, dl_url)
            /\ pc' = SavePc(ErrorsPath, "open")
            /\ ok' = FALSE
            /\ UNCHANGED <<attempt, fails>>
    /\ UNCHANGED <<listing, pages, files, doc, args, seen, seen_episodes,
                   series_state, stats, idx, locals, dl_url, rc, proc,
                   dl_log, stale, runNo, call, eps0, clean, after_clean,
                   updated, delayed>>

\* lines 744-745 (and the loop increment): delay between items
AfterItem ==
    IF delay_due(args.sleep, idx, Len(listing), stop_requested)
    THEN pc' = "sleep_item" /\ UNCHANGED idx
    ELSE pc' = "loop_head" /\ idx' = idx + 1

\* the store in memory that save_json_state(p, ...) is writing
SavedData(p) == IF p = ErrorsPath THEN errors ELSE series_state

\* a document at path q reaches state st; a complete document at a store
\* path carries the data being saved
WriteDoc(p, q, st) ==
    /\ doc' = [doc EXCEPT ![q] = st]
    /\ errorsFile' = IF q = ErrorsPath /\ st = "complete"
                     THEN SavedData(p) ELSE errorsFile
    /\ stateFile' = IF q = StatePath /\ st = "complete"
                    THEN SavedData(p) ELSE stateFile

\* lines 372-373: open(tmp, "w") creates or truncates the temporary file and
\* json.dump starts to fill it
SaveOpen(p) ==
    /\ pc = SavePc(p, "open")
    /\ WriteDoc(p, tmp_path(p), "partial")
    /\ pc' = SavePc(p, "close")
    /\ UNCHANGED <<listing, pages, seenFile, seenEpFile, args, mem, stats, idx,
                   locals, dwr, proc, dl_log, stale, runNo, hist>>

\* lines 372-373: the with block ends, the whole document is in the file
SaveClose(p) ==
    /\ pc = SavePc(p, "close")
    /\ WriteDoc(p, tmp_path(p), "complete")
    /\ pc' = SavePc(p, "replace")
    /\ UNCHANGED <<listing, pages, seenFile, seenEpFile, args, mem, stats, idx,
                   locals, dwr, proc, dl_log, stale, runNo, hist>>

\* line 374: os.replace(tmp, path), one step; then the caller goes on:
\* download_with_retry returns, or the series path reaches the item delay
SaveReplace(p) ==
    /\ pc = SavePc(p, "replace")
    /\ doc' = [q \in DocPaths |->
                  IF q = p THEN doc[tmp_path(p)]
                  ELSE IF q = tmp_path(p) THEN "absent"
                  ELSE doc[q]]
    /\ errorsFile' = IF p = ErrorsPath THEN errors ELSE errorsFile
    /\ stateFile' = IF p = StatePath THEN series_state ELSE stateFile
    /\ IF p = ErrorsPath
       THEN /\ pc' = "dwr_ret"
            /\ fails' = [fails EXCEPT ![dl_url] = IF ok THEN 0 ELSE @ + 1]
            /\ UNCHANGED idx
       ELSE AfterItem /\ UNCHANGED fails
    /\ UNCHANGED <<listing, pages, seenFile, seenEpFile, args, mem, stats, locals,
                   dwr, proc, dl_log, stale, runNo, call, eps0, clean,
                   after_clean, updated, delayed>>

\* lines 690-697, 744: the movie path after download_with_retry returned
MovieResult ==
    /\ pc = "dwr_ret"
    /\ is_single
    /\ IF ok
       THEN /\ seenFile' = IF args.dry_run THEN seenFile
                           ELSE append_seen(seenFile, dl_url)
            /\ seen' = seen \cup {dl_url}
            /\ stats' = Bump(stats, "movies_downloaded")
            /\ UNCHANGED clean
       ELSE /\ stats' = Bump(stats, "errors_this_run")
            /\ clean' = FALSE
            /\ UNCHANGED <<seenFile, seen>>
    /\ AfterItem
    /\ dl_url' = None /\ attempt' = 1 /\ rc' = 0 /\ ok' = FALSE
    /\ call' = NoCall
    /\ UNCHANGED <<listing, pages, seenEpFile, stateFile, errorsFile, doc, args,
                   seen_episodes, series_state, errors, locals, proc, dl_log,
                   stale, runNo, fails, eps0, after_clean, updated, delayed>>

\* lines 726-738: the episode loop body after download_with_retry returned
EpResult ==
    /\ pc = "dwr_ret"
    /\ ~is_single
    /\ IF ok
       THEN /\ seenEpFile' = IF args.dry_run THEN seenEpFile
                             ELSE append_seen(seenEpFile, dl_url)
            /\ seen_episodes' = seen_episodes \cup {dl_url}
            /\ stats' = Bump(stats, "episodes_downloaded")
            /\ UNCHANGED clean
       ELSE /\ stats' = Bump(stats, "errors_this_run")
            /\ clean' = FALSE
            /\ UNCHANGED <<seenEpFile, seen_episodes>>
    /\ IF delay_due(args.sleep, ep_i, Len(new_eps), stop_requested)
       THEN pc' = "sleep_ep" /\ UNCHANGED ep_i
       ELSE pc' = "ep_head" /\ ep_i' = ep_i + 1
    /\ dl_url' = None /\ attempt' = 1 /\ rc' = 0 /\ ok' = FALSE
    /\ call' = NoCall
    /\ UNCHANGED <<listing, pages, seenFile, stateFile, errorsFile, doc, args, seen,
                   series_state, errors, idx, episode_urls, new_eps,
                   found_new, proc,
                   dl_log, stale, runNo, fails, eps0, after_clean, updated,
                   delayed>>

\* line 738: time.sleep between episodes
SleepEp ==
    /\ pc = "sleep_ep"
    /\ pc' = "ep_head" /\ ep_i' = ep_i + 1
    /\ delayed' = TRUE
    /\ UNCHANGED <<listing, pages, files, doc, args, mem, stats, idx,
                   episode_urls, new_eps, found_new, dwr, proc, dl_log,
                   stale, runNo, fails, call,
                   eps0, clean, after_clean, updated>>

\* lines 740-745: update the series state and save it, then the item delay
SeriesEnd ==
    /\ pc = "series_end"
    /\ IF args.dry_run
       THEN AfterItem /\ UNCHANGED <<series_state, updated>>
       ELSE /\ series_state' = update_series_state(series_state, item_url,
                                                    found_new, runNo)
            /\ updated' = updated \cup {item_url}
            /\ pc' = SavePc(StatePath, "open")
            /\ UNCHANGED idx
    /\ UNCHANGED <<listing, pages, files, doc, args, seen, seen_episodes, errors,
                   stats, locals, dwr, proc, dl_log, stale, runNo, fails,
                   call, eps0, clean, after_clean, delayed>>

\* line 745: time.sleep between items
SleepItem ==
    /\ pc = "sleep_item"
    /\ pc' = "loop_head" /\ idx' = idx + 1
    /\ delayed' = TRUE
    /\ UNCHANGED <<listing, pages, files, doc, args, mem, stats, locals, dwr, proc,
                   dl_log, stale, runNo, fails, call, eps0, clean,
                   after_clean, updated>>

\* lines 747-770: stale report and summary, normal exit
Report ==
    /\ pc = "report"
    /\ stale' = stale_report(series_state, args.stale_days, runNo, seen)
    /\ ProcessExit(0)
    /\ UNCHANGED <<listing, pages, files, doc, child, runNo, fails, clean,
                   after_clean>>

\* lines 45-54: SIGINT / SIGTERM delivered to the orchestrator
Signal ==
    /\ pc \notin Stopped
    /\ IF force_quit(stop_requested)
       THEN /\ child' = IF current_child # None /\ child = "running"
                        THEN "terminated" ELSE child
            /\ ProcessExit(1)
            /\ clean' = FALSE
       ELSE /\ stop_requested' = TRUE
            /\ UNCHANGED <<child, pc, exit_code, clean, args, mem, stats,
                           idx, locals, dwr, current_child, dl_log, call,
                           eps0, updated, delayed>>
    /\ UNCHANGED <<listing, pages, files, doc, stale, runNo, fails, after_clean>>

\* the steps of the orchestrator process and of its downloader child
Prog ==
    \/ \E o \in {"ok", "neterr", "nojson"} : FetchCategory(o)
    \/ LoopHead
    \/ \E f \in BOOLEAN : FetchDetail(f)
    \/ Poster
    \/ EpHead
    \/ DownloadWithRetry
    \/ \E f \in BOOLEAN : RunSvtplayDl(f)
    \/ AssignChild
    \/ \E c \in {0, 1} : ChildExit(c)
    \/ WaitReturn
    \/ DwrResult
    \/ \E p \in StorePaths : SaveOpen(p)
    \/ \E p \in StorePaths : SaveClose(p)
    \/ \E p \in StorePaths : SaveReplace(p)
    \/ MovieResult
    \/ EpResult
    \/ SleepEp
    \/ SeriesEnd
    \/ SleepItem
    \/ Report

Next ==
    \/ \E d \in BOOLEAN, n \in {0, MaxDl}, s \in {0, 1} : StartRun(d, n, s)
    \/ \E u \in MarkUrls : MarkComplete(u)
    \/ \E u \in MarkUrls : UnmarkComplete(u)
    \/ Signal
    \/ Prog

Spec == Init /\ [][Next]_vars

\* the orchestrator and the downloader keep running while they can; signals
\* and new invocations are up to the user
FairSpec == Spec /\ WF_vars(Prog)

\* ------------------------------------------- the stale report on its own
\* find_stale_series and the filter of line 749 applied to stores of any
\* content: a run that was stopped before its first item is at its report
\* with the series state and the seen set as it loaded them
StaleUrls == {"s1", "s2"}
StaleDates == {NoDate, BadDate, 1, 36, 37, 401}
StaleEntries == [check_count : 0..MaxChecks,
                 last_new_episode_date : StaleDates]
StaleStores == UNION {[D -> StaleEntries] : D \in SUBSET StaleUrls}
StaleSeenFiles == {<<>>, <<"s1">>, <<"s2">>, <<"s1", "s2">>}

StaleInit ==
    /\ listing = <<MovieItem>>
    /\ pages = [u \in SiteUrls |-> DetailPage(u)]
    /\ seenFile \in StaleSeenFiles /\ seenEpFile = <<>>
    /\ stateFile \in StaleStores /\ errorsFile = <<>>
    /\ doc = [p \in DocPaths |-> IF p = StatePath THEN "complete" ELSE "absent"]
    /\ pc = "report"
    /\ args \in [dry_run : BOOLEAN, max_dl : {0}, sleep : {0},
                  stale_days : {1, 365}]
    /\ seen = load_seen(seenFile) /\ seen_episodes = {}
    /\ series_state = load_json_state(doc[StatePath], stateFile)
    /\ errors = <<>>
    /\ stats = ZeroStats
    /\ idx = 1
    /\ episode_urls = <<>>
    /\ new_eps = <<>> /\ ep_i = 1 /\ found_new = FALSE
    /\ dl_url = None /\ attempt = 1 /\ rc = 0 /\ ok = FALSE
    /\ stop_requested = TRUE /\ current_child = None /\ child = "none"
    /\ exit_code = 0
    /\ dl_log = <<>>
    /\ stale = {}
    /\ runNo = 401
    /\ fails = [u \in DlUrls |-> 0]
    /\ call = NoCall
    /\ eps0 = 0
    /\ clean = FALSE /\ after_clean = FALSE
    /\ updated = {} /\ delayed = FALSE

StaleNext == Report

StaleSpec == StaleInit /\ [][StaleNext]_vars

\* --------------------------------------- episode discovery on its own
\* discover_episode_urls applied to detail pages of any content: a run is
\* at the detail page of the series it has just fetched.  The modules of a
\* Single are not looked at, so its pages have one module at most.
ModIds == {"upcoming", "related", "details-1", "season-clips", "season-1"}
\* what an item has at item.urls.svtplay: nothing, a path, or a full URL
ItemPaths == {None, "/e1", "/e2", "https://www.svtplay.se/e1"}

\* a page written down in document order: the head of each module, with or
\* without a selection, followed by the items of its selection
PageParts ==
    {[kind |-> "module", id |-> i, selection |-> b] :
        i \in ModIds, b \in BOOLEAN}
    \cup {[kind |-> "item", path |-> p] : p \in ItemPaths}

WellFormed(parts) ==
    \A i \in 1..Len(parts) :
        parts[i].kind = "item" =>
            IF i = 1 THEN FALSE
            ELSE IF parts[i - 1].kind = "item" THEN TRUE
            ELSE parts[i - 1].selection

\* the number of items at the head of parts
RECURSIVE ItemsAhead(_)
ItemsAhead(parts) ==
    IF parts = <<>> \/ parts[1].kind # "item" THEN 0
    ELSE 1 + ItemsAhead(Tail(parts))

\* the modules list of the page that parts writes down
RECURSIVE PageModules(_)
PageModules(parts) ==
    IF parts = <<>> THEN <<>>
    ELSE LET h == Head(parts)
             k == ItemsAhead(Tail(parts))
             m == IF h.selection
                  THEN [id |-> h.id,
                        selection |-> [items |-> [i \in 1..k |->
                                                     parts[i + 1].path]]]
                  ELSE [id |-> h.id]
         IN <<m>> \o PageModules(SubSeq(parts, k + 2, Len(parts)))

DiscoverInit ==
    /\ listing = <<SeriesItem>>
    /\ \E n \in 0..MaxPage :
          \E parts \in [1..n -> PageParts],
             t \in IF n <= 1 THEN {"Single", "TvSeries"} ELSE {"TvSeries"} :
             /\ WellFormed(parts)
             /\ pages = [u \in SiteUrls |->
                            IF u = "s1"
                            THEN [parent_type |-> t, own |-> "/s1",
                                  modules |-> PageModules(parts)]
                            ELSE DetailPage(u)]
    /\ seenFile = <<>> /\ seenEpFile = <<>>
    /\ stateFile = <<>> /\ errorsFile = <<>>
    /\ doc = [p \in DocPaths |-> "absent"]
    /\ pc = "poster"
    /\ args = [dry_run |-> FALSE, max_dl |-> 0, sleep |-> 0,
               stale_days |-> StaleDays]
    /\ seen = {} /\ seen_episodes = {}
    /\ series_state = <<>> /\ errors = <<>>
    /\ stats = ZeroStats
    /\ idx = 1
    /\ episode_urls = <<>>
    /\ new_eps = <<>> /\ ep_i = 1 /\ found_new = FALSE
    /\ dl_url = None /\ attempt = 1 /\ rc = 0 /\ ok = FALSE
    /\ stop_requested = FALSE /\ current_child = None /\ child = "none"
    /\ exit_code = 0
    /\ dl_log = <<>>
    /\ stale = {}
    /\ runNo = 1
    /\ fails = [u \in DlUrls |-> 0]
    /\ call = NoCall
    /\ eps0 = 0
    /\ clean = TRUE /\ after_clean = FALSE
    /\ updated = {} /\ delayed = FALSE

DiscoverNext == Poster

DiscoverSpec == DiscoverInit /\ [][DiscoverNext]_vars

\* ------------------------------------- the script run again and again
\* complete runs only: never --dry-run, no signal, no mark or unmark, the
\* category page and the detail pages are fetched; the downloader may be
\* missing or fail
RepeatRun(maxdl, slp) ==
    /\ runNo < MaxRuns
    /\ Invoke(FALSE, maxdl, slp)

RepeatProg ==
    \/ FetchCategory("ok")
    \/ LoopHead
    \/ FetchDetail(TRUE)
    \/ Poster
    \/ EpHead
    \/ DownloadWithRetry
    \/ \E f \in BOOLEAN : RunSvtplayDl(f)
    \/ AssignChild
    \/ \E c \in {0, 1} : ChildExit(c)
    \/ WaitReturn
    \/ DwrResult
    \/ \E p \in StorePaths : SaveOpen(p)
    \/ \E p \in StorePaths : SaveClose(p)
    \/ \E p \in StorePaths : SaveReplace(p)
    \/ MovieResult
    \/ EpResult
    \/ SleepEp
    \/ SeriesEnd
    \/ SleepItem
    \/ Report

RepeatStart == \E n \in {0, MaxDl}, s \in {0, 1} : RepeatRun(n, s)

RepeatNext == RepeatStart \/ RepeatProg

\* every run goes on to its end, every downloader terminates, and the script
\* is started again while runs are left
RepeatSpec ==
    Init /\ [][RepeatNext]_vars /\ WF_vars(RepeatProg) /\ WF_vars(RepeatStart)

\* ------------------------------------------------------------------ claims
InCall == {"run", "spawned", "wait", "dwr_rc", "dwr_ret"}
              \cup SavePcs(ErrorsPath)
Launch == Len(dl_log') > Len(dl_log)
\* the exit codes of the current call say it succeeded
CallSucceeded == call.rcs # <<>> /\ call.rcs[Len(call.rcs)] = 0

\* C1: a URL with three failed download_with_retry calls since its last
\* success is flagged permanent in the error store, and run_svtplay_dl is
\* never invoked for a URL that the error store flags permanent.
C1_Escalation ==
    /\ [](\A u \in DlUrls : fails[u] >= 3 => is_permanent_error(errorsFile, u))
    /\ [][Launch => ~is_permanent_error(errorsFile, dl_url)]_vars
\* a URL failed three times, is permanent, and a later item or run skipped it
C1_Witness ==
    /\ \E u \in DlUrls : fails[u] = 3 /\ is_permanent_error(errors, u)
    /\ stats.skipped_permanent > 0
    /\ pc = "report"

\* C2: the run that follows a clean non-dry run (no failure, no stop or
\* limit break, no fetch error, seen file not unmarked since) invokes the
\* downloader not once.
C2_Idempotent == after_clean => dl_log = <<>>
\* the second run has gone through a series whose episodes the first stored
C2_Witness ==
    /\ after_clean /\ pc = "report"
    /\ stats.series_checked > 0 /\ stats.skipped_seen > 0
    /\ Len(seenEpFile) = 2

\* C3: once a stop has been requested no download_with_retry call begins.
C3_NoNewDownloadAfterStop ==
    [][stop_requested => ~(pc \notin InDownload /\ pc' \in InDownload)]_vars

\* C4: past the category fetch the process exits abnormally only with a stop
\* already pending; the first signal changes nothing but the stop flag; the
\* download in progress then has its result recorded in the seen set or the
\* error store, and the run goes on to the stale report unless a second
\* signal ends it.
C4_FirstSignalGraceful ==
    /\ [][(pc \notin Stopped /\ pc' = "exit" /\ pc # "fetch_cat") =>
            stop_requested]_vars
    /\ [][(~stop_requested /\ stop_requested') =>
            /\ pc' = pc /\ child' = child /\ current_child' = current_child
            /\ files' = files /\ mem' = mem /\ stats' = stats
            /\ dwr' = dwr /\ exit_code' = exit_code]_vars
    /\ [][(stop_requested /\ pc = "dwr_ret" /\ pc' \notin {pc, "exit"}) =>
            IF CallSucceeded
            THEN dl_url \in seen' \cup seen_episodes'
            ELSE /\ dl_url \in DOMAIN errorsFile'
                 /\ errorsFile'[dl_url].fail_count = call.fc0 + 1]_vars
    /\ (stop_requested /\ pc \in InDownload) ~> (pc = "report" \/ pc = "exit")
\* the stop arrived while the first episode was being downloaded (no delay
\* is configured): that episode is stored, the second was not started, and
\* the run is at its report
C4_Witness ==
    /\ pc = "report" /\ stop_requested
    /\ listing = <<SeriesItem>> /\ args.sleep = 0 /\ args.max_dl = 0
    /\ dl_log = <<"e1">> /\ seenEpFile = <<"e1">>
    /\ "s1" \in DOMAIN stateFile

\* C5: a second signal exits with status 1 and leaves no downloader child
\* running.
C5_SecondSignalKillsChild ==
    [][(stop_requested /\ pc \notin Stopped /\ pc' = "exit") =>
          (exit_code' = 1 /\ child' # "running")]_vars

\* C6: a call of download_with_retry invokes the downloader once or twice,
\* twice exactly when the first exit code is nonzero, returns success exactly
\* when the last exit code is zero, and on failure has raised fail_count by 1.
C6_OneRetry ==
    pc \in InCall =>
        LET n == Len(dl_log) - call.log0
            r == call.rcs
        IN /\ n <= 2
           /\ pc = "dwr_ret" =>
                /\ n >= 1 /\ Len(r) = n
                /\ (n = 2) <=> (r[1] # 0)
                /\ ok <=> (r[n] = 0)
                /\ ~ok => /\ FailCount(errors, dl_url) = call.fc0 + 1
                          /\ errorsFile = errors
\* a call failed twice for a URL that had failed before
C6_Witness ==
    /\ pc = "dwr_ret" /\ ~ok /\ Len(call.rcs) = 2
    /\ call.fc0 = 1 /\ FailCount(errors, dl_url) = 2

\* C7: a successful call leaves no entry for its URL in the error store, in
\* memory and on disk, and only a successful call removes an entry.
C7_Recovery ==
    /\ [][(pc # "dwr_ret" /\ pc' = "dwr_ret" /\ rc = 0 /\ call.rcs # <<>>) =>
            /\ dl_url \notin DOMAIN errors'
            /\ errorsFile' = errors'
            /\ fails'[dl_url] = 0]_vars
    /\ [][\A u \in DlUrls :
            (u \in DOMAIN errorsFile /\ u \notin DOMAIN errorsFile') =>
                (pc = SavePc(ErrorsPath, "replace") /\ dl_url = u /\ rc = 0)]_vars
\* a call succeeded for a URL with a recorded failure, and the entry is gone
C7_Witness ==
    /\ pc = "dwr_ret" /\ ok /\ call.fc0 > 0
    /\ dl_url \notin DOMAIN errorsFile

\* C8: with --max-dl N > 0 the successful downloads of a run never exceed N
\* and the downloader is not invoked once they equal N; with N = 0 the loops
\* end only by exhaustion or a stop request.
C8_DownloadLimit ==
    /\ [](args.max_dl > 0 => Downloads <= args.max_dl)
    /\ [][(args.max_dl > 0 /\ Downloads = args.max_dl) => ~Launch]_vars
    /\ []((args.max_dl = 0 /\ pc = "report") =>
             (stop_requested \/ idx > Len(listing)))
    /\ []((args.max_dl = 0 /\ pc = "series_end") =>
             (stop_requested \/ ep_i > Len(new_eps)))
\* the limit ended a run with items left
C8_Witness ==
    /\ args.max_dl = 1 /\ Downloads = 1 /\ ~stop_requested
    /\ pc = "report" /\ idx <= Len(listing)

\* C9: a URL enters a seen set (and, in a non-dry run, its file) during a
\* run exactly at the return of a successful download_with_retry call for
\* it: movies into the movie/series set, episodes into the episode set.
C9_SeenOnlyOnSuccess ==
    /\ [][(pc \notin Stopped /\ pc' \notin Stopped) =>
            /\ \A u \in seen' \ seen :
                  pc = "dwr_ret" /\ CallSucceeded /\ dl_url = u /\ is_single
            /\ \A u \in seen_episodes' \ seen_episodes :
                  pc = "dwr_ret" /\ CallSucceeded /\ dl_url = u /\ ~is_single
            /\ load_seen(seenFile') \subseteq load_seen(seenFile) \cup (seen' \ seen)
            /\ load_seen(seenEpFile') \subseteq
                  load_seen(seenEpFile) \cup (seen_episodes' \ seen_episodes)]_vars
    /\ [][(pc = "dwr_ret" /\ pc' \notin {pc, "exit"} /\ CallSucceeded) =>
            IF is_single
            THEN /\ dl_url \in seen'
                 /\ ~args.dry_run => dl_url \in load_seen(seenFile')
            ELSE /\ dl_url \in seen_episodes'
                 /\ ~args.dry_run => dl_url \in load_seen(seenEpFile')]_vars
\* one episode failed and is not seen, the other succeeded and is
C9_Witness ==
    /\ pc = "series_end" /\ ~args.dry_run
    /\ seen_episodes = {"e2"} /\ seenEpFile = <<"e2">>
    /\ "e1" \in DOMAIN errors

\* C10 as stated: found_new is true exactly when an episode of the series was
\* downloaded successfully in this run.
C10_FoundNewIffDownloaded ==
    pc = "series_end" => (found_new <=> stats.episodes_downloaded > eps0)

\* C10 amended: the series state is updated with found_new true exactly when
\* discovery returned an episode that was neither seen nor permanently failed
\* when the series path began, whatever became of its download.
C10_FoundNewIffDiscovered ==
    /\ [][(pc = "series_end" /\ pc' \notin {pc, "exit"} /\ ~args.dry_run) =>
             LET old == IF item_url \in DOMAIN series_state
                        THEN series_state[item_url]
                        ELSE [check_count |-> 0, last_new_episode_date |-> 0]
                 new == series_state'[item_url]
             IN IF Len(new_eps) > 0
                THEN new = [check_count |-> 0,
                            last_new_episode_date |-> runNo]
                ELSE new = [check_count |-> old.check_count + 1,
                            last_new_episode_date |->
                                old.last_new_episode_date]]_vars
    /\ [][(pc = SavePc(StatePath, "replace") /\ pc' \notin {pc, "exit"}) =>
             stateFile' = series_state]_vars
\* check_count was reset and the date stamped although both downloads failed
C10_Witness ==
    /\ pc = "loop_head"
    /\ "s1" \in DOMAIN stateFile
    /\ stateFile["s1"] = [check_count |-> 0, last_new_episode_date |-> runNo]
    /\ stats.episodes_downloaded = 0 /\ stats.errors_this_run = 2
    /\ {"e1", "e2"} \subseteq DOMAIN errorsFile

\* C11: a run updates the check_count of a series at most once (a reset to 0
\* or one more than before), however often the series is listed, and
\* check_count is never negative.
C11_OneUpdatePerRun ==
    /\ [](\A u \in DOMAIN stateFile : stateFile[u].check_count >= 0)
    /\ [][(pc = "series_end" /\ pc' = SavePc(StatePath, "open")) =>
            item_url \notin updated]_vars

\* C12: the stale report lists a series of the store exactly when its
\* check_count is at least 2, the days since its last_new_episode_date (9999
\* for an absent or unparseable date) reach the threshold, and its URL is
\* not in the movie/series seen set.
C12_StaleReport ==
    [][(pc = "report" /\ pc' = "done") =>
         \A u \in StaleUrls \cup DOMAIN series_state :
            u \in stale' <=>
               /\ u \in DOMAIN series_state
               /\ series_state[u].check_count >= 2
               /\ LET raw == series_state[u].last_new_episode_date
                      days == IF raw \in {NoDate, BadDate}
                              THEN 9999 ELSE runNo - raw
                  IN days >= args.stale_days
               /\ u \notin seen]_vars
\* check_count 2, 400 days, threshold 365: s1 is listed, and s2 with the same
\* entry is not, being in the seen file
C12_Witness ==
    /\ pc = "done" /\ runNo = 401 /\ args.stale_days = 365
    /\ DOMAIN stateFile = {"s1", "s2"}
    /\ stateFile["s1"] = [check_count |-> 2, last_new_episode_date |-> 1]
    /\ stateFile["s2"] = stateFile["s1"]
    /\ seenFile = <<"s2">>
    /\ stale = {"s1"}

\* C13: a JSON store on disk is at every moment absent or a complete
\* document; its content changes only in the replace step of a save, to the
\* whole new content; and a save interrupted by a forced exit leaves the
\* store as it was.
C13_AtomicStoreWrite ==
    /\ [](\A p \in StorePaths : doc[p] \in {"absent", "complete"})
    /\ [][/\ (errorsFile' # errorsFile \/ doc'[ErrorsPath] # doc[ErrorsPath]) =>
               /\ pc = SavePc(ErrorsPath, "replace")
               /\ errorsFile' = errors /\ doc'[ErrorsPath] = "complete"
          /\ (stateFile' # stateFile \/ doc'[StatePath] # doc[StatePath]) =>
               /\ pc = SavePc(StatePath, "replace")
               /\ stateFile' = series_state /\ doc'[StatePath] = "complete"]_vars
    /\ [][(pc \in SavePcs(ErrorsPath) \cup SavePcs(StatePath) /\ pc' = "exit") =>
            /\ errorsFile' = errorsFile /\ stateFile' = stateFile
            /\ \A p \in StorePaths : doc'[p] = doc[p]]_vars
\* the process was killed while the temporary file of the error store was
\* half written: the store still holds its previous entries
C13_Witness ==
    /\ pc = "exit"
    /\ doc["errors.json.tmp"] = "partial"
    /\ doc[ErrorsPath] = "complete" /\ errorsFile # <<>>

\* C14: in a non-dry run the seen files hold what the seen sets hold and the
\* JSON stores what the stores in memory hold, but for the one entry a save
\* in progress is writing; and the downloader is never started for a URL
\* that a seen file records.
C14_SynchronousPersistence ==
    /\ []((pc \notin Stopped /\ ~args.dry_run) =>
            /\ seen = {seenFile[i] : i \in 1..Len(seenFile)}
            /\ seen_episodes = {seenEpFile[i] : i \in 1..Len(seenEpFile)}
            /\ IF pc \in SavePcs(ErrorsPath)
               THEN /\ series_state = stateFile
                    /\ \A u \in (DOMAIN errors \cup DOMAIN errorsFile) \ {dl_url} :
                          /\ u \in DOMAIN errors /\ u \in DOMAIN errorsFile
                          /\ errors[u] = errorsFile[u]
               ELSE IF pc \in SavePcs(StatePath)
               THEN /\ errors = errorsFile
                    /\ \A u \in (DOMAIN series_state \cup DOMAIN stateFile) \ {item_url} :
                          /\ u \in DOMAIN series_state /\ u \in DOMAIN stateFile
                          /\ series_state[u] = stateFile[u]
               ELSE series_state = stateFile /\ errors = errorsFile)
    /\ [][Launch =>
            /\ \A i \in 1..Len(seenFile) : seenFile[i] # dl_url
            /\ \A i \in 1..Len(seenEpFile) : seenEpFile[i] # dl_url]_vars
\* the first run was killed after it had recorded e1 and before the series
\* state was written; the second run goes straight to e2
C14_Witness ==
    /\ runNo = 2 /\ pc = "wait" /\ ~args.dry_run
    /\ dl_url = "e2" /\ dl_log = <<"e2">>
    /\ seenEpFile = <<"e1">> /\ stateFile = <<>>

\* C15: a run whose category page cannot be fetched or parsed, or lists no
\* item, ends at once with a nonzero status, no downloader launched and the
\* files as they were.
C15_FatalStartup ==
    /\ [](pc = "fetch_cat" => dl_log = <<>> /\ child = "none")
    /\ [][(\E o \in {"neterr", "nojson"} : FetchCategory(o)) =>
            pc' = "exit"]_vars
    /\ [][(pc = "fetch_cat" /\ Len(listing) = 0) => pc' \in {pc, "exit"}]_vars
    /\ [][(pc = "fetch_cat" /\ pc' = "exit") =>
            /\ exit_code' = 1
            /\ files' = files /\ doc' = doc
            /\ dl_log' = <<>> /\ child' = "none"]_vars
\* the page listed nothing: the run is over, the seen file written by an
\* earlier --mark-complete is as it was
C15_Witness ==
    /\ pc = "exit" /\ exit_code = 1 /\ listing = <<>>
    /\ seenFile = <<"s1">> /\ runNo = 2

\* C16: a malformed entry and a failed detail fetch each add one to the
\* run's error counter and skip the item: no download, no file changed, the
\* loop goes on with the next item.
C16_PerItemRecoverable ==
    /\ [][(/\ pc = "loop_head" /\ idx <= Len(listing)
           /\ ~stop_requested /\ ~dl_limit_reached(args, stats)
           /\ ~Item.ok /\ idx' # idx /\ pc' # "exit") =>
            /\ stats'.errors_this_run = stats.errors_this_run + 1
            /\ pc' = "loop_head" /\ idx' = idx + 1
            /\ files' = files /\ dl_log' = dl_log]_vars
    /\ [][(pc = "fetch_detail" /\ pc' = "loop_head") =>
            /\ stats'.errors_this_run = stats.errors_this_run + 1
            /\ idx' = idx + 1
            /\ files' = files /\ dl_log' = dl_log]_vars

\* C17: --mark-complete u and --unmark-complete u change the movie/series
\* seen file only, putting u in and taking u out, with no fetch and no
\* downloader; a run loads that file, skips a listed item that is in it
\* without fetching its detail page, and fetches one that is not.
C17_MarkUnmark ==
    /\ [][\A u \in MarkUrls :
            /\ MarkComplete(u) => \E i \in 1..Len(seenFile') : seenFile'[i] = u
            /\ UnmarkComplete(u) => \A i \in 1..Len(seenFile') : seenFile'[i] # u]_vars
    /\ [][(runNo' # runNo /\ pc' = pc) =>
            /\ pc \in Stopped
            /\ seenEpFile' = seenEpFile /\ stateFile' = stateFile
            /\ errorsFile' = errorsFile /\ doc' = doc
            /\ dl_log' = dl_log /\ child' = child]_vars
    /\ [][(pc \in Stopped /\ pc' = "fetch_cat") =>
            seen' = {seenFile[i] : i \in 1..Len(seenFile)}]_vars
    /\ [][(/\ pc = "loop_head" /\ idx <= Len(listing)
           /\ ~stop_requested /\ ~dl_limit_reached(args, stats) /\ Item.ok
           /\ (pc' # pc \/ idx' # idx) /\ pc' # "exit") =>
            IF item_url \in seen
            THEN pc' = "loop_head" /\ idx' = idx + 1 /\ dl_log' = dl_log
            ELSE pc' = "fetch_detail" /\ idx' = idx]_vars
\* s1 was marked complete, and the run has skipped it without a look at its
\* episodes
C17_Witness ==
    /\ pc = "loop_head" /\ idx = 2 /\ listing = <<SeriesItem>>
    /\ seenFile = <<"s1">> /\ stats.skipped_seen = 1
    /\ stats.series_checked = 0 /\ dl_log = <<>>

\* C18: no URL is twice in a seen file; a URL leaves the episode file never
\* and the movie/series file only by --unmark-complete of that URL, which
\* removes it and nothing else.
C18_SeenSetInvariant ==
    /\ [](/\ \A i, j \in 1..Len(seenFile) : seenFile[i] = seenFile[j] => i = j
          /\ \A i, j \in 1..Len(seenEpFile) :
                seenEpFile[i] = seenEpFile[j] => i = j)
    /\ [][\A u \in MarkUrls \cup DlUrls :
            LET in_file == \E i \in 1..Len(seenFile) : seenFile[i] = u
                in_file_next == \E i \in 1..Len(seenFile') : seenFile'[i] = u
                in_eps == \E i \in 1..Len(seenEpFile) : seenEpFile[i] = u
                in_eps_next == \E i \in 1..Len(seenEpFile') : seenEpFile'[i] = u
            IN /\ in_eps => in_eps_next
               /\ (in_file /\ ~in_file_next) => UnmarkComplete(u)
               /\ UnmarkComplete(u) =>
                    /\ ~in_file_next
                    /\ seenFile' = SelectSeq(seenFile, LAMBDA l : l # u)]_vars
\* three invocations, among them a mark of s1 and a download or mark of m1,
\* have left each URL once in the file
C18_Witness ==
    /\ pc = "done" /\ runNo = 3 /\ listing = <<MovieItem>>
    /\ seenFile = <<"s1", "m1">>

\* C19: the episode list of a series pass is the discovered list without
\* the seen and the permanently failed episodes, each permanent one counted
\* once; the downloader is started for the episode at the head of the loop
\* only, the loop moves on one episode at a time after its attempt, and
\* ends early only on a stop request or the download limit.
C19_EpisodeSelection ==
    /\ [][(pc = "poster" /\ pc' = "ep_head") =>
            LET d == discover_episode_urls(pages[item_url])
            IN /\ new_eps' = SelectSeq(d, LAMBDA ep :
                                 /\ ep \notin seen_episodes
                                 /\ ~is_permanent_error(errors, ep))
               /\ ep_i' = 1
               /\ stats'.skipped_permanent = stats.skipped_permanent +
                    Cardinality({i \in 1..Len(d) :
                                    is_permanent_error(errors, d[i])})]_vars
    /\ [][(Launch /\ ~is_single) =>
            /\ ep_i <= Len(new_eps) /\ dl_url = new_eps[ep_i]
            /\ ~is_permanent_error(errors, dl_url)
            /\ dl_url \notin seen_episodes]_vars
    /\ [][(/\ ep_i' # ep_i /\ pc # "poster"
           /\ pc \notin Stopped /\ pc' \notin Stopped) =>
            /\ ep_i' = ep_i + 1
            /\ pc \in {"dwr_ret", "sleep_ep"}]_vars
    /\ []((pc = "dwr_ret" /\ ~is_single) =>
            Len(dl_log) > call.log0 /\ dl_url = new_eps[ep_i])
    /\ [](pc = "series_end" =>
            \/ ep_i > Len(new_eps)
            \/ stop_requested \/ dl_limit_reached(args, stats))
\* second pass over the series in a run: e2 is seen, e1 failed for the third
\* time in the first pass and is now counted as permanently failed, not tried
C19_Witness ==
    /\ pc = "series_end" /\ stats.series_checked = 2
    /\ new_eps = <<>> /\ stats.skipped_permanent = 1
    /\ is_permanent_error(errors, "e1") /\ "e2" \in seen_episodes
    /\ dl_log = <<"e1", "e1">>

\* C20: with a positive --sleep, a download call that is not the first of
\* its run begins after a delay that followed the call before it; a delay
\* starts only with no stop requested, after an item that is not the last
\* of the listing or an episode that is not the last of its list.
C20_Delays ==
    /\ [][(/\ pc = "dwr_start" /\ pc' \in {"run", "dwr_ret"}
           /\ args.sleep > 0 /\ Len(dl_log) > 0) => delayed]_vars
    /\ [][(pc' \in {"sleep_ep", "sleep_item"} /\ pc' # pc) =>
            /\ args.sleep > 0 /\ ~stop_requested
            /\ pc' = "sleep_item" => idx < Len(listing)
            /\ pc' = "sleep_ep" => ep_i < Len(new_eps)]_vars
    /\ [](args.sleep = 0 => pc \notin {"sleep_ep", "sleep_item"})
\* the run has slept after the attempt of e1 and is about to call for e2
C20_Witness ==
    /\ pc = "dwr_start" /\ dl_url = "e2" /\ delayed
    /\ args.sleep = 1 /\ dl_log # <<>> /\ dl_log[Len(dl_log)] = "e1"

\* the places <<module, item>> of a page where a module that is not skipped
\* lists an item whose path resolves to u
Listed(page, u) ==
    {<<k, i>> \in (1..Len(page.modules)) \X (1..MaxPage) :
        LET m == page.modules[k]
        IN /\ m.id \notin {"upcoming", "related"}
           /\ ~(Len(m.id) >= 7 /\ SubSeq(m.id, 1, 7) = "details")
           /\ ~(\E j \in 1..(Len(m.id) - 4) : SubSeq(m.id, j, j + 4) = "clips")
           /\ "selection" \in DOMAIN m
           /\ i <= Len(m.selection.items)
           /\ m.selection.items[i] # None
           /\ u = IF SubSeq(m.selection.items[i], 1, 1) = "/"
                  THEN "https://www.svtplay.se" \o m.selection.items[i]
                  ELSE m.selection.items[i]}
\* place a is before place b in the page
Before(a, b) == a[1] < b[1] \/ (a[1] = b[1] /\ a[2] < b[2])
\* u is listed for the first time before v is
FirstBefore(page, u, v) ==
    \E a \in Listed(page, u) : \A b \in Listed(page, v) : Before(a, b)

\* C21: for a title that is not a Single, discovery returns each URL that an
\* item of a module with a selection and an id other than upcoming, related,
\* details... and ...clips... resolves to, once, in the order of the first
\* places where the page lists them, and no other URL.
C21_DiscoveryDedup ==
    [][(pc = "poster" /\ pc' = "ep_head"
        /\ pages[item_url].parent_type # "Single") =>
         LET page == pages[item_url]
             r == episode_urls'
         IN /\ \A i, j \in 1..Len(r) : r[i] = r[j] => i = j
            /\ \A i \in 1..Len(r) : Listed(page, r[i]) # {}
            /\ \A u \in {"https://www.svtplay.se/e1", "https://www.svtplay.se/e2"} :
                  Listed(page, u) # {} => \E i \in 1..Len(r) : r[i] = u
            /\ \A i, j \in 1..Len(r) :
                  i < j => FirstBefore(page, r[i], r[j])]_vars
\* the season lists e1 by its path, e2, and e1 again by its full URL: e1 comes
\* out once, before e2
C21_Witness ==
    /\ pc = "ep_head"
    /\ pages["s1"].parent_type = "TvSeries"
    /\ pages["s1"].modules =
          << [id |-> "season-1",
              selection |-> [items |-> <<"/e1", "/e2",
                                         "https://www.svtplay.se/e1">>]] >>
    /\ episode_urls = <<"https://www.svtplay.se/e1", "https://www.svtplay.se/e2">>

\* C22: a dry run starts no downloader process and changes none of the four
\* state files, whatever the stores held when it began.
C22_DryRunFrame ==
    [][(pc \notin Stopped /\ args.dry_run) =>
         /\ child' = "none"
         /\ seenFile' = seenFile /\ seenEpFile' = seenEpFile
         /\ stateFile' = stateFile /\ errorsFile' = errorsFile
         /\ \A p \in StorePaths : doc'[p] = doc[p]]_vars

\* C23: from an empty error store on, every entry of the store, in memory and
\* on disk, has a fail_count from 1 to 3 and is permanent exactly when its
\* fail_count is 3; a fail_count changes only by one more failure of a URL
\* that is not permanent, the downloader is not started for a permanent URL,
\* and a permanent entry on disk stays as it is.
C23_ErrorStoreInvariant ==
    /\ [](\A st \in {errors, errorsFile} : \A u \in DOMAIN st :
             /\ 1 <= st[u].fail_count /\ st[u].fail_count <= 3
             /\ st[u].permanent <=> (st[u].fail_count = 3))
    /\ [][\A u \in DOMAIN errors \cap DOMAIN errors' :
             errors'[u].fail_count # errors[u].fail_count =>
                /\ pc = "dwr_rc" /\ dl_url = u /\ rc # 0
                /\ ~errors[u].permanent
                /\ errors'[u].fail_count = errors[u].fail_count + 1]_vars
    /\ [][Launch =>
            (dl_url \notin DOMAIN errors \/ ~errors[dl_url].permanent)]_vars
    /\ [][\A u \in DOMAIN errorsFile :
             errorsFile[u].permanent =>
                (u \in DOMAIN errorsFile' /\ errorsFile'[u] = errorsFile[u])]_vars
\* after three runs the store on disk holds e1, which failed in each of them,
\* as permanent with fail_count 3, and e2, which the first run did not get
\* to, with fail_count 2
C23_Witness ==
    /\ pc = "done" /\ runNo = 3
    /\ DOMAIN errorsFile = {"e1", "e2"}
    /\ errorsFile["e1"] = [fail_count |-> 3, permanent |-> TRUE]
    /\ errorsFile["e2"] = [fail_count |-> 2, permanent |-> FALSE]

\* the movie URLs and the episode URLs of the catalog: what the listing names
\* as Single, and what discovery returns for the other titles it names
MovieUrls ==
    {listing[i].svtplay :
        i \in {j \in 1..Len(listing) :
                  listing[j].ok /\ listing[j].typename = "Single"}}
EpisodeUrls ==
    UNION {LET d == discover_episode_urls(pages[listing[i].svtplay])
           IN {d[k] : k \in 1..Len(d)} :
           i \in {j \in 1..Len(listing) :
                     listing[j].ok /\ listing[j].typename # "Single"}}
\* u is in the seen file or permanent in the error store, on disk
Resolved(file, errs, u) ==
    \/ \E i \in 1..Len(file) : file[i] = u
    \/ (u \in DOMAIN errs /\ errs[u].permanent)
AllResolved ==
    /\ \A u \in MovieUrls : Resolved(seenFile, errorsFile, u)
    /\ \A u \in EpisodeUrls : Resolved(seenEpFile, errorsFile, u)

\* C24: when the script is run again and again, each run complete and not
\* dry, the catalog fixed and every downloader terminating, there comes a
\* time from which every movie URL and every discovered episode URL is in its
\* seen file or permanent in the error store; a URL that has got there stays
\* there, and the downloader is not started for it again.
C24_EventualResolution ==
    /\ <>[]AllResolved
    /\ [][/\ \A u \in MovieUrls :
                Resolved(seenFile, errorsFile, u) =>
                    Resolved(seenFile', errorsFile', u)
          /\ \A u \in EpisodeUrls :
                Resolved(seenEpFile, errorsFile, u) =>
                    Resolved(seenEpFile', errorsFile', u)]_vars
    /\ [][Launch =>
            ~Resolved(IF is_single THEN seenFile ELSE seenEpFile,
                      errorsFile, dl_url)]_vars
\* the movie and e2 were downloaded, e1 failed in three runs: the fourth run
\* has passed both titles and started nothing
C24_Witness ==
    /\ pc = "report" /\ runNo = 4 /\ dl_log = <<>>
    /\ listing = <<MovieItem, SeriesItem>>
    /\ AllResolved
    /\ seenFile = <<"m1">> /\ seenEpFile = <<"e2">>
    /\ errorsFile["e1"].permanent
    /\ stats.skipped_seen = 1 /\ stats.skipped_permanent = 1

====
